---- MODULE Spec2Model ----
(***************************************************************************)
(* A model of sparkey-python (src/sparkey/__init__.py): the cffi binding   *)
(* classes LogWriter, LogReader, LogIter, HashReader, HashWriter and the   *)
(* functions writehash and iterate_items, over a model of the sparkey      *)
(* storage engine (the lib.sparkey functions), which the binding only      *)
(* calls.                                                                  *)
(* The engine is modelled from its specification, the binding from its    *)
(* code.                                                                   *)
(*                                                                         *)
(* Byte strings are sequences of small naturals; 0 is the NUL byte.        *)
(***************************************************************************)
EXTENDS Naturals, Integers, Sequences, FiniteSets, TLC

----------------------------------------------------------------------------
(* Bounds of the model.                                                    *)

\* most records (put or delete) ever handed to the engine's log writer
MaxRecs == 2
\* the compression block size used when block compression is chosen
BlockSize == 2

\* keys and values that the operations are driven with.  <<1, 0, 2>> holds
\* an embedded NUL byte; <<1>> and <<1, 0, 2>> collide in small hash tables.
Keys == {<<1>>, <<1, 0, 2>>}
Values == {<<6, 7>>, <<5, 0, 6>>}

----------------------------------------------------------------------------
(* Program constants.                                                      *)

Compression_NONE == 0
Compression_SNAPPY == 1

----------------------------------------------------------------------------
(* cffi conversions.                                                       *)

RECURSIVE FirstNul(_, _)
\* index of the first NUL byte of buf at or after i, Len(buf) + 1 when none
FirstNul(buf, i) ==
    IF i > Len(buf) THEN Len(buf) + 1
    ELSE IF buf[i] = 0 THEN i
    ELSE FirstNul(buf, i + 1)

\* ffi.string(cdata, maxlen) on a uint8_t pointer: the bytes up to the first
\* NUL byte, looking at most maxlen bytes far
ffi_string(buf, maxlen) ==
    LET seen == SubSeq(buf, 1, IF maxlen < Len(buf) THEN maxlen ELSE Len(buf))
    IN  SubSeq(seen, 1, FirstNul(seen, 1) - 1)

\* blen == 0 where blen is the cdata pointer ffi.new("uint64_t*"): a pointer
\* object never equals the integer 0, whatever length it points to
cdata_ptr_eq_int(blen, n) == FALSE

----------------------------------------------------------------------------
(* The engine: log records and compression blocks.                         *)

PUT == "PUT"
DELETE == "DELETE"
\* a record whose header does not decode (damage to the file)
MALFORMED == "MALFORMED"

\* off: the offset in the uncompressed record stream, counted from the start
\* of the compression block the record begins in, of the record's key
PutRec(k, v, off) == [type |-> PUT, key |-> k, value |-> v, off |-> off]
DelRec(k, off) == [type |-> DELETE, key |-> k, value |-> <<>>, off |-> off]

Min(a, b) == IF a < b THEN a ELSE b

\* bytes the engine hands out in one chunk read of at most maxlen bytes, when
\* `pos` bytes of the record (key first, value after it) were consumed before:
\* without compression the rest of the field; with block compression what is
\* left of the currently materialized block
EngineChunkLen(ctype, bs, rec, pos, remaining, maxlen) ==
    IF ctype = Compression_NONE
    THEN Min(remaining, maxlen)
    ELSE Min(Min(remaining, maxlen), bs - ((rec.off + pos) % bs))

\* sparkey_logiter_valuechunk: the next chunk of the value
sparkey_logiter_valuechunk(ctype, bs, rec, consumed, maxlen) ==
    LET n == EngineChunkLen(ctype, bs, rec, Len(rec.key) + consumed,
                            Len(rec.value) - consumed, maxlen)
    IN  SubSeq(rec.value, consumed + 1, consumed + n)

\* sparkey_logiter_keychunk: the next chunk of the key
sparkey_logiter_keychunk(ctype, bs, rec, consumed, maxlen) ==
    LET n == EngineChunkLen(ctype, bs, rec, consumed,
                            Len(rec.key) - consumed, maxlen)
    IN  SubSeq(rec.key, consumed + 1, consumed + n)

----------------------------------------------------------------------------
(* The engine: the hash index.                                             *)

RECURSIVE SumBytes(_)
SumBytes(s) == IF s = <<>> THEN 0 ELSE Head(s) + SumBytes(Tail(s))

\* the hash of a key
HashOf(key) == SumBytes(key)

\* liveness: record i is the latest operation on its key and it is a put
IsLive(recs, i) ==
    /\ recs[i].type = PUT
    /\ \A j \in (i + 1)..Len(recs) : recs[j].key # recs[i].key

\* a count of the put records, superseded and deleted ones included
C13_counts_puts(recs) ==
    Cardinality({i \in 1..Len(recs) : recs[i].type = PUT})

LiveCount(recs) == Cardinality({i \in 1..Len(recs) : IsLive(recs, i)})

RECURSIVE CapacityFrom(_, _)
\* doubling until the occupancy is at most two thirds
CapacityFrom(c, n) == IF 3 * n <= 2 * c THEN c ELSE CapacityFrom(2 * c, n)

Capacity(n) == CapacityFrom(1, n)

RECURSIVE ProbeFree(_, _, _)
\* linear probing: the first empty slot at or after displacement d
ProbeFree(slots, start, d) ==
    LET s == ((start + d) % Len(slots)) + 1
    IN  IF slots[s] = 0 THEN s ELSE ProbeFree(slots, start, d + 1)

RECURSIVE InsertLive(_, _, _)
\* second pass of the build: every live record's offset goes to its slot
InsertLive(recs, i, slots) ==
    IF i > Len(recs) THEN slots
    ELSE IF IsLive(recs, i)
    THEN LET s == ProbeFree(slots, HashOf(recs[i].key) % Len(slots), 0)
         IN  InsertLive(recs, i + 1, [slots EXCEPT ![s] = i])
    ELSE InsertLive(recs, i + 1, slots)

BuildSlots(recs) ==
    InsertLive(recs, 1, [s \in 1..Capacity(LiveCount(recs)) |-> 0])

RECURSIVE Probe(_, _, _, _)
\* lookup: follow the displacement rule to a slot whose record has this key
\* (0: an empty slot was hit or the displacement bound was exceeded)
Probe(recs, slots, key, d) ==
    IF d >= Len(slots) THEN 0
    ELSE LET s == ((HashOf(key) + d) % Len(slots)) + 1
         IN  IF slots[s] = 0 THEN 0
             ELSE IF recs[slots[s]].key = key /\ recs[slots[s]].type = PUT
             THEN slots[s]
             ELSE Probe(recs, slots, key, d + 1)

\* sparkey_hash_get: the log offset of the live put of key, 0 when the
\* iterator is left not ACTIVE
sparkey_hash_get(recs, slots, key) == Probe(recs, slots, key, 0)

RECURSIVE NextSlot(_, _)
\* sparkey_logiter_hashnext: the next occupied slot after slot p, 0 at the end
NextSlot(slots, p) ==
    IF p >= Len(slots) THEN 0
    ELSE IF slots[p + 1] # 0 THEN p + 1
    ELSE NextSlot(slots, p + 1)

----------------------------------------------------------------------------
(* State.                                                                  *)

VARIABLES
    logfile,    \* the log file on disk: header and flushed records
    hashfile,   \* the hash file at the hash path
    lw,         \* the LogWriter object
    hr,         \* the HashReader object
    it,         \* a traversal made by iterate_items (a generator)
    hw,         \* the HashWriter object
    lr,         \* the LogReader object
    li,         \* the LogIter object
    build,      \* a build of the hash file in progress (sparkey_hash_write)
    ck,         \* a call of a chunk-reading helper in progress
    tr,         \* the cursors on the HashReader: its own and its traversals'
    res         \* the outcome of the latest call into the binding

vars ==
    <<logfile, hashfile, lw, hr, it, hw, lr, li, build, ck, tr, res>>

\* outcomes of a call: the exception raised, if any
NoExc == "none"
WriterClosed == "SparkeyException: Writer is closed"
ReaderClosed == "SparkeyException: HashReader is closed"
LogReaderClosed == "SparkeyException: Reader is closed"
IteratorClosed == "SparkeyException: Iterator is closed"
InvalidMode == "SparkeyException: Invalid mode"
TypeError == "TypeError"
AttributeError == "AttributeError"
StopIteration == "StopIteration"
EngineError == "Exception: engine status"
\* the call reached the engine with a NULL or released handle: the engine's
\* behaviour is undefined and the process may die
Undefined == "undefined behaviour"

\* op: the method called; key: its key argument; exc: the exception raised;
\* some/val: the value returned (some = FALSE: None); n: the number or the
\* truth value (0/1) returned; engine: the call reached the engine;
\* rebuilt: the call published a hash file; misuse: the engine was handed a
\* NULL or released handle
Outcome(op, key, exc, some, val, n, engine, rebuilt) ==
    [op |-> op, key |-> key, exc |-> exc, some |-> some, val |-> val,
     n |-> n, engine |-> engine, rebuilt |-> rebuilt, misuse |-> FALSE]

Misused(op, key, exc) ==
    [Outcome(op, key, exc, FALSE, <<>>, 0, TRUE, FALSE)
        EXCEPT !.misuse = TRUE]

Raised(op, key, exc, engine) ==
    Outcome(op, key, exc, FALSE, <<>>, 0, engine, FALSE)

Returned(op, key, engine) ==
    Outcome(op, key, NoExc, FALSE, <<>>, 0, engine, FALSE)

\* one more call of an engine close function on a native handle; the count
\* stops at 2, which already is one call too many
Counted(n) == IF n < 2 THEN n + 1 ELSE n

NoLog == [exists |-> FALSE, id |-> 0, ctype |-> Compression_NONE, bs |-> 0,
          recs |-> <<>>]
\* state: "missing", "ok", "partial" (not all of it written) or "corrupt";
\* src is the log content the index was built from (kept for stating
\* properties, never read by the code)
NoHash == [state |-> "missing", logid |-> 0, dataEnd |-> 0, numEntries |-> 0,
           slots |-> <<>>, src |-> <<>>]

NoWriter == [st |-> "absent", pending |-> <<>>, fill |-> 0, closes |-> 0]
\* hash: the hash file as mapped when the reader opened (a later build
\* publishes another file and leaves the mapped one as it is).  The reader
\* reads records from the log file itself, whose flushed part only grows.
NoReader == [st |-> "absent", hash |-> NoHash, closes |-> 0, iterCloses |-> 0]
NoTraversal == [st |-> "absent", pos |-> 0, out |-> <<>>, closes |-> 0]
NoHashWriter == [st |-> "absent", reader |-> "None"]
NoLogReader == [st |-> "absent", recs |-> <<>>, closes |-> 0]
NoLogIter == [st |-> "absent", pos |-> 0, closes |-> 0]
\* pc: "idle", "writing" (the output file is begun) or "written" (it is
\* complete); tmp: the builder's output file; before: the file at the hash
\* path when the build began; last: how the latest build ended
NoBuild == [pc |-> "idle", tmp |-> NoHash, before |-> NoHash, last |-> "none"]

\* no call of a chunk-reading helper: pc is "idle", "loop" (in the while
\* loop) or "returned"; data is the field the engine delivers, consumed the
\* bytes of it delivered so far, maxlen and acc the helper's maxlen and res,
\* asked and blen the length requested and returned by the latest chunk
\* read, reads the number of chunk reads, empty whether one returned no byte
NoChunkRead ==
    [pc |-> "idle", func |-> "none", data |-> <<>>, consumed |-> 0,
     maxlen |-> 0, acc |-> <<>>, asked |-> 0, blen |-> 0, reads |-> 0,
     empty |-> FALSE]

\* the traversals of one reader that run side by side
Traversals == {1, 2}

\* pos[0]: the slot that the reader's own iterator (self._iterator) stands
\* on; pos[t]: the slot that the iterator made by traversal t stands on
\* (0: before the first slot); st[t]: "absent", "created" (a generator not
\* started), "running" or "done"; out[t]: the pairs traversal t yielded
NoCursors ==
    [pos |-> [c \in {0} \cup Traversals |-> 0],
     st |-> [t \in Traversals |-> "absent"],
     out |-> [t \in Traversals |-> <<>>]]

\* the identity of the log file that the program creates
LogId == 1

\* a hash file left at the hash path by an earlier build from another log,
\* which held one put
ForeignLog ==
    [exists |-> TRUE, id |-> LogId + 1, ctype |-> Compression_NONE, bs |-> 0,
     recs |-> <<[type |-> "PUT", key |-> <<1>>, value |-> <<6, 7>>,
                 off |-> 0]>>]

----------------------------------------------------------------------------
(* The engine: the log writer.                                             *)

\* records handed to the engine for the current log: flushed and buffered
Written == Len(logfile.recs) + Len(lw.pending)

\* sparkey_logwriter_create: a new file with its own identity
sparkey_logwriter_create(ctype) ==
    [exists |-> TRUE, id |-> LogId, ctype |-> ctype,
     bs |-> IF ctype = Compression_NONE THEN 0 ELSE BlockSize,
     recs |-> <<>>]

\* the writer's block fill after `n` more bytes entered the record stream
FillAfter(fill, n) ==
    IF logfile.ctype = Compression_NONE THEN 0 ELSE (fill + n) % logfile.bs

\* sparkey_logwriter_put / sparkey_logwriter_delete: buffer one record
EngineAppend(w, rec) ==
    [w EXCEPT !.pending = Append(@, rec),
              !.fill = FillAfter(@, Len(rec.key) + Len(rec.value))]

\* sparkey_logwriter_flush: the buffered records, a partially filled block
\* included, reach the file
FlushedLog(w) == [logfile EXCEPT !.recs = @ \o w.pending]

FlushedWriter(w) == [w EXCEPT !.pending = <<>>, !.fill = 0]

----------------------------------------------------------------------------
(* LogWriter.                                                              *)

\* put, delete and flush without the check of _assert_open
C7_assert_open_skipped(w) == TRUE

\* _assert_open passes
LogWriter_assert_open(w) == w.st # "closed"

\* LogWriter.__init__ on the fields of a writer object
LogWriter_init_effect(mode, ctype) ==
    IF mode = "NEW"
    THEN /\ logfile' = sparkey_logwriter_create(ctype)
         /\ lw' = [NoWriter EXCEPT !.st = "open"]
    ELSE \* APPEND: the engine's status code is dropped, so a log that is
         \* missing leaves the object with a NULL native handle
         /\ UNCHANGED logfile
         /\ lw' = [NoWriter EXCEPT
                      !.st = IF logfile.exists THEN "open" ELSE "null"]

LogWriter_init(mode, ctype) ==
    /\ hw.st = "absent"
    /\ lw.st \in {"absent", "closed"}
    /\ \/ /\ mode \in {"NEW", "APPEND"}
          /\ mode = "NEW" => ~logfile.exists
          /\ LogWriter_init_effect(mode, ctype)
          /\ res' = Returned("LogWriter.__init__", <<>>, TRUE)
       \/ /\ mode \notin {"NEW", "APPEND"}
          /\ UNCHANGED <<logfile, lw>>
          /\ res' = Raised("LogWriter.__init__", <<>>, InvalidMode, FALSE)
    /\ UNCHANGED <<hashfile, hr, it, hw, lr, li, build, ck, tr>>

\* a close() that calls the engine and leaves _log as it was
C10_handle_kept(w) ==
    IF w.st # "closed"
    THEN [FlushedWriter(w) EXCEPT !.closes = Counted(@)]
    ELSE w

\* LogWriter.close: the writer object afterwards.  closes counts the calls
\* of sparkey_logwriter_close on the writer's native handle.
LogWriter_closed(w) ==
    IF w.st # "closed"
    THEN [FlushedWriter(w) EXCEPT !.st = "closed",
                                  !.closes = Counted(@)]
    ELSE w

\* LogWriter.close: the log file afterwards (the engine's close flushes what
\* is buffered)
LogWriter_closed_log(w) == IF w.st = "open" THEN FlushedLog(w) ELSE logfile

LogWriter_close_effect ==
    /\ logfile' = LogWriter_closed_log(lw)
    /\ lw' = LogWriter_closed(lw)

LogWriter_close ==
    /\ hw.st = "absent"
    /\ lw.st # "absent"
    /\ LogWriter_close_effect
    /\ res' = Returned("LogWriter.close", <<>>, lw.st # "closed")
    /\ UNCHANGED <<hashfile, hr, it, hw, lr, li, build, ck, tr>>

\* no record: what flush hands to LogWriter_call
NoRec == [type |-> "NONE", key |-> <<>>, value |-> <<>>, off |-> 0]

\* the body of put, delete and flush after the argument checks: `rec` is the
\* record to buffer, NoRec stands for flush.  tag names the method called.
LogWriter_call(tag, key, rec) ==
    IF ~LogWriter_assert_open(lw)
    THEN /\ res' = Raised(tag, key, WriterClosed, FALSE)
         /\ UNCHANGED <<logfile, lw>>
    ELSE IF lw.st = "closed"
    THEN \* self._log[0] with self._log None
         /\ res' = Raised(tag, key, TypeError, FALSE)
         /\ UNCHANGED <<logfile, lw>>
    ELSE IF lw.st = "null"
    THEN \* the engine is handed a NULL writer
         /\ res' = Misused(tag, key, Undefined)
         /\ UNCHANGED <<logfile, lw>>
    ELSE /\ res' = Returned(tag, key, TRUE)
         /\ IF rec.type = "NONE"
            THEN /\ logfile' = FlushedLog(lw)
                 /\ lw' = FlushedWriter(lw)
            ELSE /\ lw' = EngineAppend(lw, rec)
                 /\ UNCHANGED logfile

\* room for one more record within the model's bounds
Room == lw.st = "open" => Written < MaxRecs

LogWriter_put(k, v) ==
    /\ hw.st = "absent"
    /\ lw.st # "absent"
    /\ Room
    /\ LogWriter_call("LogWriter.put", k, PutRec(k, v, lw.fill))
    /\ UNCHANGED <<hashfile, hr, it, hw, lr, li, build, ck, tr>>

LogWriter_delete(k) ==
    /\ hw.st = "absent"
    /\ lw.st # "absent"
    /\ Room
    /\ LogWriter_call("LogWriter.delete", k, DelRec(k, lw.fill))
    /\ UNCHANGED <<hashfile, hr, it, hw, lr, li, build, ck, tr>>

LogWriter_flush ==
    /\ hw.st = "absent"
    /\ lw.st # "absent"
    /\ LogWriter_call("LogWriter.flush", <<>>, NoRec)
    /\ UNCHANGED <<hashfile, hr, it, hw, lr, li, build, ck, tr>>


----------------------------------------------------------------------------
(* The engine: building and opening the hash file.                         *)

\* the hash file's embedded log identity (unique id and length) matches the
\* log file exactly
HashIsCurrent(h, l) ==
    /\ h.state = "ok"
    /\ l.exists
    /\ h.logid = l.id
    /\ h.dataEnd = Len(l.recs)

\* the complete index of log l
BuiltHash(l) ==
    [state |-> "ok", logid |-> l.id, dataEnd |-> Len(l.recs),
     numEntries |-> LiveCount(l.recs), slots |-> BuildSlots(l.recs),
     src |-> l.recs]

\* a build that never finds the hash file current
C5_never_noop(h, l) == FALSE

\* step 1 of the build: nothing to do when the hash file is current
sparkey_hash_write_noop(h, l) == HashIsCurrent(h, l)

\* sparkey_hash_write publishes a hash file (it fails when the log is missing)
sparkey_hash_write_writes(h, l) == l.exists /\ ~sparkey_hash_write_noop(h, l)

\* sparkey_hash_write run to its end without an I/O error: the hash file
\* that is at the hash path afterwards
sparkey_hash_write(h, l) ==
    IF sparkey_hash_write_writes(h, l) THEN BuiltHash(l) ELSE h

\* sparkey_hash_open: the status code, 0 for success
sparkey_hash_open(h, l) ==
    IF h.state = "missing" \/ ~l.exists THEN 1
    ELSE IF h.state = "corrupt" THEN 2
    ELSE IF h.logid # l.id THEN 3
    ELSE IF h.dataEnd > Len(l.recs) THEN 4
    ELSE 0

StaleHash == BuiltHash(ForeignLog)

\* a damaged file left at the hash path
CorruptHash == [NoHash EXCEPT !.state = "corrupt"]

----------------------------------------------------------------------------
(* The state before the program's first call.                              *)

Init ==
    /\ logfile = NoLog
    /\ hashfile \in {NoHash, StaleHash, CorruptHash}
    /\ lw = NoWriter
    /\ hr = NoReader
    /\ it = NoTraversal
    /\ hw = NoHashWriter
    /\ lr = NoLogReader
    /\ li = NoLogIter
    /\ build = NoBuild
    /\ ck = NoChunkRead
    /\ tr = NoCursors
    /\ res = Returned("start", <<>>, FALSE)

----------------------------------------------------------------------------
(* writehash.                                                              *)

\* writehash(hashfile, logfile): one call of the engine, its status dropped
writehash_effect == hashfile' = sparkey_hash_write(hashfile, logfile)

writehash ==
    /\ hw.st = "absent"
    /\ writehash_effect
    /\ res' = [Returned("writehash", <<>>, TRUE) EXCEPT
                 !.rebuilt = sparkey_hash_write_writes(hashfile, logfile)]
    /\ UNCHANGED <<logfile, lw, hr, it, hw, lr, li, build, ck, tr>>

----------------------------------------------------------------------------
(* HashReader.                                                             *)

\* a constructor that drops the engine's status code, as the other
\* constructors of the binding do
C6_status_dropped(rc) == FALSE

\* the constructor's test of the engine's status code: TRUE when it raises
HashReader_init_raises(rc) == rc # 0

\* the reader object a successful HashReader.__init__ makes
HashReader_opened == [NoReader EXCEPT !.st = "open", !.hash = hashfile]

\* HashReader.__init__ on the reader object; tag names the caller
HashReader_init_effect(tag) ==
    LET rc == sparkey_hash_open(hashfile, logfile)
    IN  IF HashReader_init_raises(rc)
        THEN /\ res' = Raised(tag, <<>>, EngineError, TRUE)
             /\ UNCHANGED hr
        ELSE /\ res' = Returned(tag, <<>>, TRUE)
             /\ hr' = HashReader_opened

HashReader_init ==
    /\ hw.st = "absent"
    /\ hr.st \in {"absent", "closed"}
    /\ HashReader_init_effect("HashReader.__init__")
    /\ it' = NoTraversal
    /\ UNCHANGED <<logfile, hashfile, lw, hw, lr, li, build, ck, tr>>

\* HashReader.close: the reader object afterwards.  The engine's reader and
\* the reader's own iterator are closed when the fields are not None; closes
\* and iterCloses count the calls of sparkey_hash_close and
\* sparkey_logiter_close on them.  The mapped hash file is released.
HashReader_closed(r) ==
    IF r.st = "open"
    THEN [r EXCEPT !.st = "closed", !.hash = NoHash,
                   !.closes = Counted(@), !.iterCloses = Counted(@)]
    ELSE r

HashReader_close_effect == hr' = HashReader_closed(hr)

HashReader_close ==
    /\ hw.st = "absent"
    /\ hr.st # "absent"
    /\ HashReader_close_effect
    /\ res' = Returned("HashReader.close", <<>>, hr.st = "open")
    /\ UNCHANGED <<logfile, hashfile, lw, it, hw, lr, li, build, ck, tr>>

\* _assert_open passes
HashReader_assert_open(r) == r.st # "closed"

RECURSIVE HashReader_value_chunk(_, _, _, _, _)
\* _value_chunk(maxlen) with the reader's iterator on record rec, `consumed`
\* bytes of the value read so far and acc the string built so far
HashReader_value_chunk(r, rec, consumed, maxlen, acc) ==
    IF maxlen > 0
    THEN LET buff == sparkey_logiter_valuechunk(logfile.ctype, logfile.bs,
                                                rec, consumed, maxlen)
             blen == Len(buff)
         IN  IF cdata_ptr_eq_int(blen, 0) THEN acc
             ELSE HashReader_value_chunk(r, rec, consumed + blen,
                                         maxlen - blen,
                                         acc \o ffi_string(buff, blen))
    ELSE acc

\* HashReader.get(key): the outcome; tag names the method called
HashReader_get_outcome(tag, r, key) ==
    IF r.st = "closed"
    THEN \* self._iterator[0] with self._iterator None
         Raised(tag, key, TypeError, FALSE)
    ELSE LET at == sparkey_hash_get(logfile.recs, r.hash.slots, key)
         IN  IF at = 0
             THEN Returned(tag, key, TRUE)
             ELSE Outcome(tag, key, NoExc, TRUE,
                          HashReader_value_chunk(r, logfile.recs[at], 0,
                              Len(logfile.recs[at].value), <<>>),
                          0, TRUE, FALSE)

HashReader_get(key) ==
    /\ hw.st = "absent"
    /\ hr.st # "absent"
    /\ res' = HashReader_get_outcome("HashReader.get", hr, key)
    /\ UNCHANGED <<logfile, hashfile, lw, hr, it, hw, lr, li, build, ck, tr>>

\* HashReader.__contains__(key), has_key(key)
HashReader_contains(key) ==
    /\ hw.st = "absent"
    /\ hr.st # "absent"
    /\ res' = IF ~HashReader_assert_open(hr)
              THEN Raised("HashReader.__contains__", key, ReaderClosed, FALSE)
              ELSE IF hr.st = "closed"
              THEN Raised("HashReader.__contains__", key, TypeError, FALSE)
              ELSE [Returned("HashReader.__contains__", key, TRUE) EXCEPT
                      !.n = IF sparkey_hash_get(logfile.recs, hr.hash.slots,
                                                key) # 0 THEN 1 ELSE 0]
    /\ UNCHANGED <<logfile, hashfile, lw, hr, it, hw, lr, li, build, ck, tr>>

\* HashReader.__len__
HashReader_len ==
    /\ hw.st = "absent"
    /\ hr.st # "absent"
    /\ res' = IF hr.st = "closed"
              THEN \* self._reader[0] with self._reader None
                   Raised("HashReader.__len__", <<>>, TypeError, FALSE)
              ELSE [Returned("HashReader.__len__", <<>>, TRUE) EXCEPT
                      !.n = hr.hash.numEntries]
    /\ UNCHANGED <<logfile, hashfile, lw, hr, it, hw, lr, li, build, ck, tr>>


----------------------------------------------------------------------------
(* iterate_items: the generator behind iter(hashreader).                   *)

RECURSIVE chunk_with_func(_, _, _, _, _, _)
\* chunk_with_func(func, maxlen, iterator, log) with the iterator on record
\* rec of log l; func is "key" for sparkey_logiter_keychunk and "value" for
\* sparkey_logiter_valuechunk
chunk_with_func(func, l, rec, consumed, maxlen, acc) ==
    IF maxlen > 0
    THEN LET buff == IF func = "key"
                     THEN sparkey_logiter_keychunk(l.ctype, l.bs, rec,
                                                   consumed, maxlen)
                     ELSE sparkey_logiter_valuechunk(l.ctype, l.bs, rec,
                                                     consumed, maxlen)
             blen == Len(buff)
         IN  IF cdata_ptr_eq_int(blen, 0) THEN acc
             ELSE chunk_with_func(func, l, rec, consumed + blen,
                                  maxlen - blen,
                                  acc \o ffi_string(buff, blen))
    ELSE acc

key_chunk(l, rec) == chunk_with_func("key", l, rec, 0, Len(rec.key), <<>>)

value_chunk(l, rec) ==
    chunk_with_func("value", l, rec, 0, Len(rec.value), <<>>)

\* iter(hashreader): a generator object whose body has not started
HashReader_iter ==
    /\ hw.st = "absent"
    /\ hr.st # "absent"
    /\ it' = [NoTraversal EXCEPT !.st = "created"]
    /\ res' = Returned("HashReader.__iter__", <<>>, FALSE)
    /\ UNCHANGED <<logfile, hashfile, lw, hr, hw, lr, li, build, ck, tr>>

\* one pass of the generator's loop from slot position `pos`
iterate_items_step(pos) ==
    LET p == NextSlot(hr.hash.slots, pos)
    IN  IF p = 0
        THEN \* the iterator is not ACTIVE: leave the loop, close, finish
             /\ it' = [it EXCEPT !.st = "done", !.closes = Counted(@)]
             /\ res' = Raised("next", <<>>, StopIteration, TRUE)
        ELSE LET rec == logfile.recs[hr.hash.slots[p]]
                 key == key_chunk(logfile, rec)
                 value == value_chunk(logfile, rec)
             IN  /\ it' = [it EXCEPT !.st = "running", !.pos = p,
                                     !.out = Append(@, <<key, value>>)]
                 /\ res' = Outcome("next", key, NoExc, TRUE, value, 0,
                                   TRUE, FALSE)

\* next() on the generator
Traversal_next ==
    /\ hw.st = "absent"
    /\ it.st # "absent"
    /\ IF it.st = "done"
       THEN /\ res' = Raised("next", <<>>, StopIteration, FALSE)
            /\ UNCHANGED it
       ELSE IF it.st = "created"
       THEN IF hr.st = "closed"
            THEN \* reader[0] with hash_reader._reader None
                 /\ res' = Raised("next", <<>>, TypeError, FALSE)
                 /\ it' = [it EXCEPT !.st = "done"]
            ELSE iterate_items_step(0)
       ELSE IF hr.st = "closed"
            THEN \* reader[0] is the released reader: the engine is called
                 \* with it, and with the log reader that lived inside it
                 /\ \E exc \in {Undefined, StopIteration} :
                        res' = Misused("next", <<>>, exc)
                 /\ it' = [it EXCEPT !.st = "done"]
            ELSE iterate_items_step(it.pos)
    /\ UNCHANGED <<logfile, hashfile, lw, hr, hw, lr, li, build, ck, tr>>


----------------------------------------------------------------------------
(* HashWriter.                                                             *)

\* _assert_open passes
HashWriter_assert_open(w) == w.st # "closed"

\* HashWriter.__init__: a LogWriter on the log file, no reader yet
HashWriter_init(mode, ctype) ==
    /\ hw.st \in {"absent", "closed"}
    /\ lw.st = "absent" \/ hw.st = "closed"
    /\ hr.st = "absent" \/ hw.st = "closed"
    /\ lr.st = "absent"
    /\ \/ /\ mode \in {"NEW", "APPEND"}
          /\ mode = "NEW" => ~logfile.exists
          /\ LogWriter_init_effect(mode, ctype)
          /\ hw' = [st |-> "open", reader |-> "None"]
          /\ hr' = NoReader
          /\ res' = Returned("HashWriter.__init__", <<>>, TRUE)
       \/ /\ mode \notin {"NEW", "APPEND"}
          /\ UNCHANGED <<logfile, lw, hw, hr>>
          /\ res' = Raised("HashWriter.__init__", <<>>, InvalidMode, FALSE)
    /\ UNCHANGED <<hashfile, it, lr, li, build, ck, tr>>

\* put(k, v): self._logwriter.put(k, v), with no _assert_open before it
HashWriter_put(k, v) ==
    /\ hw.st # "absent"
    /\ Room
    /\ IF hw.st = "closed"
       THEN \* self._logwriter is None
            /\ res' = Raised("HashWriter.put", k, AttributeError, FALSE)
            /\ UNCHANGED <<logfile, lw>>
       ELSE LogWriter_call("HashWriter.put", k, PutRec(k, v, lw.fill))
    /\ UNCHANGED <<hashfile, hr, it, hw, lr, li, build, ck, tr>>

HashWriter_delete(k) ==
    /\ hw.st # "absent"
    /\ Room
    /\ IF ~HashWriter_assert_open(hw)
       THEN /\ res' = Raised("HashWriter.delete", k, WriterClosed, FALSE)
            /\ UNCHANGED <<logfile, lw>>
       ELSE IF hw.st = "closed"
       THEN /\ res' = Raised("HashWriter.delete", k, AttributeError, FALSE)
            /\ UNCHANGED <<logfile, lw>>
       ELSE LogWriter_call("HashWriter.delete", k, DelRec(k, lw.fill))
    /\ UNCHANGED <<hashfile, hr, it, hw, lr, li, build, ck, tr>>

\* flush() past its _assert_open: self._logwriter.flush(), then writehash
HashWriter_flush_effect(tag) ==
    IF lw.st = "null"
    THEN \* the engine is handed a NULL writer
         /\ res' = Misused(tag, <<>>, Undefined)
         /\ UNCHANGED <<logfile, lw, hashfile>>
    ELSE /\ logfile' = FlushedLog(lw)
         /\ lw' = FlushedWriter(lw)
         /\ hashfile' = sparkey_hash_write(hashfile, FlushedLog(lw))
         /\ res' = [Returned(tag, <<>>, TRUE) EXCEPT
                      !.rebuilt = sparkey_hash_write_writes(hashfile,
                                                            FlushedLog(lw))]

HashWriter_flush ==
    /\ hw.st # "absent"
    /\ IF ~HashWriter_assert_open(hw)
       THEN /\ res' = Raised("HashWriter.flush", <<>>, WriterClosed, FALSE)
            /\ UNCHANGED <<logfile, lw, hashfile>>
       ELSE IF hw.st = "closed"
       THEN /\ res' = Raised("HashWriter.flush", <<>>, AttributeError, FALSE)
            /\ UNCHANGED <<logfile, lw, hashfile>>
       ELSE HashWriter_flush_effect("HashWriter.flush")
    /\ UNCHANGED <<hr, it, hw, lr, li, build, ck, tr>>

\* _close_reader on the reader object
HashWriter_close_reader ==
    IF hw.reader # "None" THEN HashReader_close_effect ELSE UNCHANGED hr

\* destroy(): closes the log writer and the reader, flushes no hash
HashWriter_destroy ==
    /\ hw.st # "absent"
    /\ IF hw.st # "closed"
       THEN LogWriter_close_effect
       ELSE UNCHANGED <<logfile, lw>>
    /\ HashWriter_close_reader
    /\ hw' = [st |-> "closed", reader |-> "None"]
    /\ res' = Returned("HashWriter.destroy", <<>>, hw.st # "closed")
    /\ UNCHANGED <<hashfile, it, lr, li, build, ck, tr>>

\* close(): flush() and destroy() when the writer is not closed yet
HashWriter_close ==
    /\ hw.st # "absent"
    /\ IF hw.st # "closed"
       THEN /\ IF lw.st = "null"
               THEN UNCHANGED <<logfile, hashfile>>
               ELSE /\ logfile' = FlushedLog(lw)
                    /\ hashfile' = sparkey_hash_write(hashfile,
                                                      FlushedLog(lw))
            /\ lw' = LogWriter_closed(IF lw.st = "null" THEN lw
                                      ELSE FlushedWriter(lw))
            /\ HashWriter_close_reader
            /\ hw' = [st |-> "closed", reader |-> "None"]
            /\ res' = IF lw.st = "null"
                      THEN Misused("HashWriter.close", <<>>, Undefined)
                      ELSE [Returned("HashWriter.close", <<>>, TRUE) EXCEPT
                              !.rebuilt = sparkey_hash_write_writes(
                                              hashfile, FlushedLog(lw))]
       ELSE /\ UNCHANGED <<logfile, hashfile, lw, hr, hw>>
            /\ res' = Returned("HashWriter.close", <<>>, FALSE)
    /\ UNCHANGED <<it, lr, li, build, ck, tr>>

\* _init_reader(): the cached reader, opened on first use
HashWriter_init_reader_opens(w) == w.reader = "None"

\* get(key), __getitem__(key)
HashWriter_get(key) ==
    /\ hw.st # "absent"
    /\ IF ~HashWriter_assert_open(hw)
       THEN /\ res' = Raised("HashWriter.get", key, WriterClosed, FALSE)
            /\ UNCHANGED <<hr, hw>>
       ELSE IF HashWriter_init_reader_opens(hw)
       THEN LET rc == sparkey_hash_open(hashfile, logfile)
                opened == HashReader_opened
            IN  IF HashReader_init_raises(rc)
                THEN /\ res' = Raised("HashWriter.get", key, EngineError,
                                      TRUE)
                     /\ UNCHANGED <<hr, hw>>
                ELSE /\ hr' = opened
                     /\ hw' = [hw EXCEPT !.reader = "hr"]
                     /\ res' = HashReader_get_outcome("HashWriter.get",
                                                      opened, key)
       ELSE /\ res' = HashReader_get_outcome("HashWriter.get", hr, key)
            /\ UNCHANGED <<hr, hw>>
    /\ UNCHANGED <<logfile, hashfile, lw, it, lr, li, build, ck, tr>>

\* iteritems(), __iter__(): self._init_reader().iteritems(), a method that
\* HashReader does not have
HashWriter_iteritems ==
    /\ hw.st # "absent"
    /\ IF ~HashWriter_assert_open(hw)
       THEN /\ res' = Raised("HashWriter.iteritems", <<>>, WriterClosed,
                             FALSE)
            /\ UNCHANGED <<hr, hw>>
       ELSE IF HashWriter_init_reader_opens(hw)
       THEN LET rc == sparkey_hash_open(hashfile, logfile)
            IN  IF HashReader_init_raises(rc)
                THEN /\ res' = Raised("HashWriter.iteritems", <<>>,
                                      EngineError, TRUE)
                     /\ UNCHANGED <<hr, hw>>
                ELSE /\ hr' = HashReader_opened
                     /\ hw' = [hw EXCEPT !.reader = "hr"]
                     /\ res' = Raised("HashWriter.iteritems", <<>>,
                                      AttributeError, TRUE)
       ELSE /\ res' = Raised("HashWriter.iteritems", <<>>, AttributeError,
                             FALSE)
            /\ UNCHANGED <<hr, hw>>
    /\ UNCHANGED <<logfile, hashfile, lw, it, lr, li, build, ck, tr>>


----------------------------------------------------------------------------
(* LogReader and LogIter.                                                  *)

\* the iterator states of the engine
IterState_NEW == 0
IterState_ACTIVE == 1
IterState_CLOSED == 2
IterState_INVALID == 3

\* LogReader.__init__: the engine's status code is dropped, so a missing log
\* leaves the object with a NULL native handle
LogReader_init ==
    /\ hw.st = "absent"
    /\ lr.st \in {"absent", "closed"}
    /\ lr' = [NoLogReader EXCEPT
                !.st = IF logfile.exists THEN "open" ELSE "null",
                !.recs = logfile.recs]
    /\ li' = NoLogIter
    /\ res' = Returned("LogReader.__init__", <<>>, TRUE)
    /\ UNCHANGED <<logfile, hashfile, lw, hr, it, hw, build, ck, tr>>

\* LogReader.close: the reader object afterwards
LogReader_closed(r) ==
    IF r.st # "closed"
    THEN [r EXCEPT !.st = "closed", !.closes = Counted(@)]
    ELSE r

LogReader_close ==
    /\ hw.st = "absent"
    /\ lr.st # "absent"
    /\ lr' = LogReader_closed(lr)
    /\ res' = Returned("LogReader.close", <<>>, lr.st # "closed")
    /\ UNCHANGED <<logfile, hashfile, lw, hr, it, hw, li, build, ck, tr>>

\* LogReader._assert_open passes
LogReader_assert_open(r) == r.st # "closed"

\* iter(logreader): LogIter.__init__
LogReader_iter ==
    /\ hw.st = "absent"
    /\ lr.st # "absent"
    /\ li.st \in {"absent", "closed"}
    /\ IF ~LogReader_assert_open(lr)
       THEN /\ res' = Raised("LogReader.__iter__", <<>>, LogReaderClosed,
                             FALSE)
            /\ UNCHANGED li
       ELSE IF lr.st = "null"
       THEN /\ res' = Misused("LogReader.__iter__", <<>>, Undefined)
            /\ UNCHANGED li
       ELSE /\ res' = Returned("LogReader.__iter__", <<>>, TRUE)
            /\ li' = [NoLogIter EXCEPT !.st = "open"]
    /\ UNCHANGED <<logfile, hashfile, lw, hr, it, hw, lr, build, ck, tr>>

\* LogIter.close: the iterator object afterwards
LogIter_closed(i) ==
    IF i.st # "closed"
    THEN [i EXCEPT !.st = "closed", !.closes = Counted(@)]
    ELSE i

LogIter_close ==
    /\ hw.st = "absent"
    /\ li.st # "absent"
    /\ li' = LogIter_closed(li)
    /\ res' = Returned("LogIter.close", <<>>, li.st # "closed")
    /\ UNCHANGED <<logfile, hashfile, lw, hr, it, hw, lr, build, ck, tr>>

\* the cursor stands on a record that did not decode: its state is INVALID
OnMalformed(recs, pos) == pos >= 1 /\ recs[pos].type = MALFORMED

\* sparkey_logiter_next: the state and position after.  An INVALID cursor
\* stays as it is (the call fails); a malformed record makes the cursor
\* INVALID; the end of the log makes it CLOSED.  The status code that the
\* engine returns is not part of the result: LogIter.next drops it.
sparkey_logiter_next(recs, pos) ==
    IF OnMalformed(recs, pos)
    THEN [state |-> IterState_INVALID, pos |-> pos]
    ELSE IF pos < Len(recs)
    THEN [state |-> IF recs[pos + 1].type = MALFORMED
                    THEN IterState_INVALID ELSE IterState_ACTIVE,
          pos |-> pos + 1]
    ELSE [state |-> IterState_CLOSED, pos |-> pos]

\* ffi.new("uint8_t*", n) is one byte, so the engine's fill of n bytes stays
\* inside it only for n <= 1
FillFits(n) == n <= 1

\* LogIter.next
LogIter_next ==
    /\ hw.st = "absent"
    /\ li.st # "absent"
    /\ IF li.st = "closed"
       THEN /\ res' = Raised("LogIter.next", <<>>, IteratorClosed, FALSE)
            /\ UNCHANGED li
       ELSE IF ~LogReader_assert_open(lr)
       THEN /\ res' = Raised("LogIter.next", <<>>, LogReaderClosed, FALSE)
            /\ UNCHANGED li
       ELSE LET n == sparkey_logiter_next(lr.recs, li.pos)
            IN  /\ li' = [li EXCEPT !.pos = n.pos]
                /\ IF n.state # IterState_ACTIVE
                   THEN res' = Raised("LogIter.next", <<>>, StopIteration,
                                      TRUE)
                   ELSE LET rec == lr.recs[n.pos]
                            got == Outcome("LogIter.next",
                                      ffi_string(rec.key, Len(rec.key)),
                                      NoExc, TRUE,
                                      ffi_string(rec.value, Len(rec.value)),
                                      IF rec.type = PUT THEN 0 ELSE 1,
                                      TRUE, FALSE)
                        IN  IF FillFits(Len(rec.key))
                               /\ FillFits(Len(rec.value))
                            THEN res' = got
                            ELSE \* the fill overruns the one-byte buffer
                                 \E exc \in {NoExc, Undefined} :
                                    res' = [got EXCEPT !.exc = exc,
                                                       !.misuse = TRUE]
    /\ UNCHANGED <<logfile, hashfile, lw, hr, it, hw, lr, build, ck, tr>>

----------------------------------------------------------------------------
(* The program: calls of the binding in any order.                         *)

Modes == {"NEW", "APPEND", "OLD"}
Compressions == {Compression_NONE, Compression_SNAPPY}

\* a log writer, writehash, a hash reader and a traversal of it
Next ==
    \/ \E mode \in Modes, ctype \in Compressions : LogWriter_init(mode, ctype)
    \/ \E k \in Keys, v \in Values : LogWriter_put(k, v)
    \/ \E k \in Keys : LogWriter_delete(k)
    \/ LogWriter_flush
    \/ LogWriter_close
    \/ writehash
    \/ HashReader_init
    \/ \E k \in Keys : HashReader_get(k)
    \/ \E k \in Keys : HashReader_contains(k)
    \/ HashReader_len
    \/ HashReader_iter
    \/ Traversal_next
    \/ HashReader_close

Spec == Init /\ [][Next]_vars

\* a hash writer
NextHW ==
    \/ \E mode \in Modes, ctype \in Compressions : HashWriter_init(mode, ctype)
    \/ \E k \in Keys, v \in Values : HashWriter_put(k, v)
    \/ \E k \in Keys : HashWriter_delete(k)
    \/ HashWriter_flush
    \/ \E k \in Keys : HashWriter_get(k)
    \/ HashWriter_iteritems
    \/ HashWriter_destroy
    \/ HashWriter_close

SpecHW == Init /\ [][NextHW]_vars

----------------------------------------------------------------------------
(* The engine: the steps of sparkey_hash_write, as other processes see     *)
(* them.                                                                   *)

\* where the builder writes its output: "tmp" is a temporary file of its own
C4_in_place == "hash"

BuildPath == "tmp"

\* an output file of which only the header is written
Partial(h) == [h EXCEPT !.state = "partial", !.slots = <<>>]

\* the file at the hash path while the builder writes file f
WhileBuilding(f) == IF BuildPath = "tmp" THEN hashfile ELSE f

\* steps 1 to 4: nothing to do, or scan the log and begin the output file
sparkey_hash_write_begin ==
    /\ build.pc = "idle"
    /\ logfile.exists
    /\ IF sparkey_hash_write_noop(hashfile, logfile)
       THEN /\ build' = [NoBuild EXCEPT !.last = "noop"]
            /\ UNCHANGED hashfile
       ELSE /\ build' = [pc |-> "writing",
                         tmp |-> Partial(BuiltHash(logfile)),
                         before |-> hashfile, last |-> "none"]
            /\ hashfile' = WhileBuilding(Partial(BuiltHash(logfile)))
    /\ res' = Returned("sparkey_hash_write", <<>>, TRUE)
    /\ UNCHANGED <<logfile, lw, hr, it, hw, lr, li, ck, tr>>

\* step 5, first half: the table is written to the output file
sparkey_hash_write_table ==
    /\ build.pc = "writing"
    /\ build' = [build EXCEPT
                   !.pc = "written",
                   !.tmp = [build.tmp EXCEPT
                              !.state = "ok",
                              !.slots = BuildSlots(build.tmp.src)]]
    /\ hashfile' = WhileBuilding(build'.tmp)
    /\ res' = Returned("sparkey_hash_write", <<>>, TRUE)
    /\ UNCHANGED <<logfile, lw, hr, it, hw, lr, li, ck, tr>>

\* step 5, second half: the output file is renamed over the hash path
sparkey_hash_write_rename ==
    /\ build.pc = "written"
    /\ hashfile' = build.tmp
    /\ build' = [NoBuild EXCEPT !.before = build.before,
                                !.last = "published"]
    /\ res' = [Returned("sparkey_hash_write", <<>>, TRUE)
                 EXCEPT !.rebuilt = TRUE]
    /\ UNCHANGED <<logfile, lw, hr, it, hw, lr, li, ck, tr>>

\* an I/O error aborts the build: the output file is discarded
sparkey_hash_write_fail ==
    /\ build.pc \in {"writing", "written"}
    /\ build' = [NoBuild EXCEPT !.before = build.before, !.last = "failed"]
    /\ UNCHANGED hashfile
    /\ res' = Returned("sparkey_hash_write", <<>>, TRUE)
    /\ UNCHANGED <<logfile, lw, hr, it, hw, lr, li, ck, tr>>

\* a log writer, a rebuild of the hash file in steps and a hash reader, each
\* in a process of its own
NextPublish ==
    \/ \E ctype \in Compressions : LogWriter_init("NEW", ctype)
    \/ \E k \in Keys, v \in Values : LogWriter_put(k, v)
    \/ \E k \in Keys : LogWriter_delete(k)
    \/ LogWriter_flush
    \/ sparkey_hash_write_begin
    \/ sparkey_hash_write_table
    \/ sparkey_hash_write_rename
    \/ sparkey_hash_write_fail
    \/ HashReader_init
    \/ \E k \in Keys : HashReader_get(k)
    \/ HashReader_close

SpecPublish == Init /\ [][NextPublish]_vars

\* every handle type, each driven with one key and one value
OneKey == {<<1>>}
OneValue == {<<6, 7>>}

NextAll ==
    \/ \E mode \in Modes : LogWriter_init(mode, Compression_NONE)
    \/ \E k \in OneKey, v \in OneValue : LogWriter_put(k, v)
    \/ \E k \in OneKey : LogWriter_delete(k)
    \/ LogWriter_flush
    \/ LogWriter_close
    \/ writehash
    \/ HashReader_init
    \/ \E k \in OneKey : HashReader_get(k)
    \/ HashReader_iter
    \/ Traversal_next
    \/ HashReader_close
    \/ LogReader_init
    \/ LogReader_iter
    \/ LogIter_next
    \/ LogIter_close
    \/ LogReader_close
    \/ \E mode \in Modes : HashWriter_init(mode, Compression_NONE)
    \/ \E k \in OneKey, v \in OneValue : HashWriter_put(k, v)
    \/ \E k \in OneKey : HashWriter_delete(k)
    \/ HashWriter_flush
    \/ \E k \in OneKey : HashWriter_get(k)
    \/ HashWriter_iteritems
    \/ HashWriter_destroy
    \/ HashWriter_close

SpecAll == Init /\ [][NextAll]_vars

----------------------------------------------------------------------------
(* A log that is written, damaged on disk and read back in log order.      *)

\* values for the log iterator: one that fits the one-byte buffer of
\* _iter_res, one that does not and holds a NUL byte
LogValues == {<<7>>, <<5, 0, 6>>}

\* damage to the file from outside the program: the header of flushed
\* record i no longer decodes
LogDamaged(i) ==
    /\ logfile.exists
    /\ i \in 1..Len(logfile.recs)
    /\ logfile.recs[i].type # MALFORMED
    /\ logfile' = [logfile EXCEPT !.recs[i].type = MALFORMED]
    /\ res' = Returned("damage", <<>>, FALSE)
    /\ UNCHANGED <<hashfile, lw, hr, it, hw, lr, li, build, ck, tr>>

NextLog ==
    \/ \E ctype \in Compressions : LogWriter_init("NEW", ctype)
    \/ \E k \in Keys, v \in LogValues : LogWriter_put(k, v)
    \/ \E k \in Keys : LogWriter_delete(k)
    \/ LogWriter_flush
    \/ LogWriter_close
    \/ \E i \in 1..MaxRecs : LogDamaged(i)
    \/ LogReader_init
    \/ LogReader_iter
    \/ LogIter_next
    \/ LogIter_close
    \/ LogReader_close

SpecLog == Init /\ [][NextLog]_vars

----------------------------------------------------------------------------
(* The chunk-reading helpers, one pass of their loop at a time, against an *)
(* engine that delivers a field in chunks of any lengths.                  *)

\* longest field read
MaxLen == 3
\* most chunk reads followed within one call of a helper
MaxReads == 4

Bytes == 0..2
ChunkData == UNION {[1..n -> Bytes] : n \in 0..MaxLen}
Helpers == {"HashReader._value_chunk", "chunk_with_func"}

RuntimeError == "RuntimeError"

\* a call helper(maxlen) with maxlen the length of the field, as get and
\* iterate_items make it: res = "", then the test of `while maxlen > 0`
Chunk_call(func, data) ==
    /\ ck.pc # "loop"
    /\ ck' = [NoChunkRead EXCEPT
                !.pc = IF Len(data) > 0 THEN "loop" ELSE "returned",
                !.func = func, !.data = data, !.maxlen = Len(data)]
    /\ res' = Returned(func, <<>>, FALSE)
    /\ UNCHANGED <<logfile, hashfile, lw, hr, it, hw, lr, li, build, tr>>

\* one pass of the while loop in call c: the engine is asked for at most
\* c.maxlen bytes and delivers buff, behind a NULL pointer or not; then
\* `if blen == 0`, `res += ffi.string(buff[0], blen[0])`,
\* `maxlen -= blen[0]` and the test of `while maxlen > 0`
chunk_loop_pass(c, buff, null) ==
    LET blen == Len(buff)
        read == [c EXCEPT !.asked = c.maxlen, !.blen = blen,
                          !.reads = @ + 1,
                          !.empty = @ \/ blen = 0,
                          !.consumed = @ + blen]
    IN  IF cdata_ptr_eq_int(blen, 0)
        THEN [read EXCEPT !.pc = "returned"]
        ELSE IF null
        THEN \* ffi.string on a NULL pointer
             [read EXCEPT !.pc = "raised"]
        ELSE [read EXCEPT !.acc = @ \o ffi_string(buff, blen),
                          !.maxlen = @ - blen,
                          !.pc = IF c.maxlen - blen > 0 THEN "loop"
                                 ELSE "returned"]

\* the engine delivers the next n bytes of the field; with no byte to
\* deliver it may leave the buffer pointer NULL
Chunk_read(n, null) ==
    /\ ck.pc = "loop"
    /\ ck.reads < MaxReads
    /\ n <= Min(ck.maxlen, Len(ck.data) - ck.consumed)
    /\ null => n = 0
    /\ ck' = chunk_loop_pass(ck, SubSeq(ck.data, ck.consumed + 1,
                                        ck.consumed + n), null)
    /\ res' = Outcome(ck.func, <<>>,
                      IF ck'.pc = "raised" THEN RuntimeError ELSE NoExc,
                      ck'.pc = "returned", ck'.acc, 0, TRUE, FALSE)
    /\ UNCHANGED <<logfile, hashfile, lw, hr, it, hw, lr, li, build, tr>>

NextChunk ==
    \/ \E func \in Helpers, data \in ChunkData : Chunk_call(func, data)
    \/ \E n \in 0..MaxLen, null \in BOOLEAN : Chunk_read(n, null)

SpecChunk == Init /\ [][NextChunk]_vars

----------------------------------------------------------------------------
(* LogWriter.put and LogWriter.delete with arguments of any Python type.   *)

\* Python values: a str with its bytes, and values of other types
PyStr(b) == [pytype |-> "str", bytes |-> b]
PyInt == [pytype |-> "int", bytes |-> <<>>]
PyUnicode == [pytype |-> "unicode", bytes |-> <<1>>]
PyNone == [pytype |-> "NoneType", bytes |-> <<>>]
PyArgs == {PyStr(b) : b \in OneKey \cup OneValue} \cup {PyInt, PyUnicode, PyNone}

KeyNotString == "SparkeyException: key must be a string"
ValueNotString == "SparkeyException: value must be a string"

\* a put or delete with no type check of its arguments
C15_any_type(x) == TRUE

\* type(x) == str
is_str(x) == x.pytype = "str"

\* LogWriter.put(key, value), whole: _assert_open, the two type checks, the
\* engine call
LogWriter_put_any(key, value) ==
    /\ hw.st = "absent"
    /\ lw.st # "absent"
    /\ Room
    /\ IF ~LogWriter_assert_open(lw)
       THEN /\ res' = Raised("LogWriter.put", <<>>, WriterClosed, FALSE)
            /\ UNCHANGED <<logfile, lw>>
       ELSE IF ~is_str(key)
       THEN /\ res' = Raised("LogWriter.put", <<>>, KeyNotString, FALSE)
            /\ UNCHANGED <<logfile, lw>>
       ELSE IF ~is_str(value)
       THEN /\ res' = Raised("LogWriter.put", <<>>, ValueNotString, FALSE)
            /\ UNCHANGED <<logfile, lw>>
       ELSE LogWriter_call("LogWriter.put", key.bytes,
                           PutRec(key.bytes, value.bytes, lw.fill))
    /\ UNCHANGED <<hashfile, hr, it, hw, lr, li, build, ck, tr>>

\* LogWriter.delete(key), whole
LogWriter_delete_any(key) ==
    /\ hw.st = "absent"
    /\ lw.st # "absent"
    /\ Room
    /\ IF ~LogWriter_assert_open(lw)
       THEN /\ res' = Raised("LogWriter.delete", <<>>, WriterClosed, FALSE)
            /\ UNCHANGED <<logfile, lw>>
       ELSE IF ~is_str(key)
       THEN /\ res' = Raised("LogWriter.delete", <<>>, KeyNotString, FALSE)
            /\ UNCHANGED <<logfile, lw>>
       ELSE LogWriter_call("LogWriter.delete", key.bytes,
                           DelRec(key.bytes, lw.fill))
    /\ UNCHANGED <<hashfile, hr, it, hw, lr, li, build, ck, tr>>

NextArgs ==
    \/ \E mode \in Modes, ctype \in Compressions : LogWriter_init(mode, ctype)
    \/ \E key \in PyArgs, value \in PyArgs : LogWriter_put_any(key, value)
    \/ \E key \in PyArgs : LogWriter_delete_any(key)
    \/ LogWriter_flush
    \/ LogWriter_close

SpecArgs == Init /\ [][NextArgs]_vars

----------------------------------------------------------------------------
(* Lookups and several traversals on one open HashReader, each engine call *)
(* acting on the iterator it is handed.                                    *)

\* a traversal that advances the reader's own iterator
C20_shared_cursor(t) == 0

\* the iterator that traversal t advances: iterate_items makes one of its
\* own with ffi.new and sparkey_logiter_create
CursorOf(t) == t

\* the slot holding log record `at`; past the last slot when there is none
\* (the iterator is left not ACTIVE and a hashnext from it finds nothing)
SlotOf(slots, at) ==
    IF at = 0 THEN Len(slots) + 1
    ELSE CHOOSE s \in 1..Len(slots) : slots[s] = at

\* sparkey_hash_get(reader, key, len, self._iterator): the reader's own
\* iterator afterwards
OwnCursorAt(key) ==
    [tr EXCEPT !.pos[0] =
        SlotOf(hr.hash.slots,
               sparkey_hash_get(logfile.recs, hr.hash.slots, key))]

\* HashReader.get(key) on an open reader: the lookup moves the reader's own
\* iterator and _value_chunk reads the value of the record it stands on
Cursor_get(key) ==
    /\ hr.st = "open"
    /\ tr' = OwnCursorAt(key)
    /\ LET p == tr'.pos[0]
       IN  res' = IF p > Len(hr.hash.slots)
                  THEN Returned("HashReader.get", key, TRUE)
                  ELSE LET rec == logfile.recs[hr.hash.slots[p]]
                       IN  Outcome("HashReader.get", key, NoExc, TRUE,
                                   HashReader_value_chunk(hr, rec, 0,
                                       Len(rec.value), <<>>),
                                   0, TRUE, FALSE)
    /\ UNCHANGED <<logfile, hashfile, lw, hr, it, hw, lr, li, build, ck>>

\* HashReader.__contains__(key) on an open reader
Cursor_contains(key) ==
    /\ hr.st = "open"
    /\ tr' = OwnCursorAt(key)
    /\ res' = [Returned("HashReader.__contains__", key, TRUE) EXCEPT
                 !.n = IF tr'.pos[0] <= Len(hr.hash.slots) THEN 1 ELSE 0]
    /\ UNCHANGED <<logfile, hashfile, lw, hr, it, hw, lr, li, build, ck>>

\* iter(reader): generator t, not started
Cursor_iter(t) ==
    /\ hr.st = "open"
    /\ tr.st[t] = "absent"
    /\ tr' = [tr EXCEPT !.st[t] = "created"]
    /\ res' = Returned("HashReader.__iter__", <<>>, FALSE)
    /\ UNCHANGED <<logfile, hashfile, lw, hr, it, hw, lr, li, build, ck>>

\* next() on generator t: on the first call the iterator is created, then
\* one pass of the loop of iterate_items
Cursor_next(t) ==
    /\ hr.st = "open"
    /\ tr.st[t] \in {"created", "running"}
    /\ LET c == CursorOf(t)
           from == IF tr.st[t] = "created" THEN 0 ELSE tr.pos[c]
           p == NextSlot(hr.hash.slots, from)
       IN  IF p = 0
           THEN /\ tr' = [tr EXCEPT !.st[t] = "done",
                                    !.pos[c] = Len(hr.hash.slots) + 1]
                /\ res' = Raised("next", <<>>, StopIteration, TRUE)
           ELSE LET rec == logfile.recs[hr.hash.slots[p]]
                    key == key_chunk(logfile, rec)
                    value == value_chunk(logfile, rec)
                IN  /\ tr' = [tr EXCEPT !.st[t] = "running",
                                        !.pos[c] = p,
                                        !.out[t] = Append(@, <<key, value>>)]
                    /\ res' = Outcome("next", key, NoExc, TRUE, value, 0,
                                      TRUE, FALSE)
    /\ UNCHANGED <<logfile, hashfile, lw, hr, it, hw, lr, li, build, ck>>

NextIter ==
    \/ LogWriter_init("NEW", Compression_NONE)
    \/ \E k \in Keys, v \in OneValue : LogWriter_put(k, v)
    \/ \E k \in Keys : LogWriter_delete(k)
    \/ LogWriter_flush
    \/ writehash
    \/ HashReader_init
    \/ \E k \in Keys : Cursor_get(k)
    \/ \E k \in Keys : Cursor_contains(k)
    \/ \E t \in Traversals : Cursor_iter(t)
    \/ \E t \in Traversals : Cursor_next(t)

SpecIter == Init /\ [][NextIter]_vars

----------------------------------------------------------------------------
(* What a log says about a key, stated without the hash index.             *)

\* the position of the latest operation on key k in recs, 0 when there is none
LastOp(recs, k) ==
    LET on == {i \in 1..Len(recs) : recs[i].key = k}
    IN  IF on = {} THEN 0 ELSE CHOOSE i \in on : \A j \in on : j <= i

LatestIsPut(recs, k) == LastOp(recs, k) # 0 /\ recs[LastOp(recs, k)].type = PUT

LatestIsDelete(recs, k) ==
    LastOp(recs, k) # 0 /\ recs[LastOp(recs, k)].type = DELETE

\* a put of k comes before the latest operation on k, which is a delete
DeletedAfterPut(recs, k) ==
    /\ LatestIsDelete(recs, k)
    /\ \E i \in 1..Len(recs) : recs[i].key = k /\ recs[i].type = PUT

\* the value of the latest put of k
LatestValue(recs, k) == recs[LastOp(recs, k)].value

----------------------------------------------------------------------------
(* Claims.                                                                 *)

\* C1: round trip.  After puts and deletes were written through a LogWriter
\* and flushed and the hash index was built from that log, HashReader.get(key)
\* returns exactly the value of the latest put of key, byte for byte, for
\* every key whose latest flushed operation is a put, with and without
\* block compression.
C1_RoundTrip ==
    (/\ res.op = "HashReader.get"
     /\ hr.st = "open"
     /\ LatestIsPut(hr.hash.src, res.key))
    => (/\ res.exc = NoExc
        /\ res.some
        /\ res.val = LatestValue(hr.hash.src, res.key))

\* C2: tombstone precedence.  When delete(key) follows a put of key and both
\* are flushed and indexed, HashReader.get(key) returns None, key is not
\* contained, and iterating the reader yields no pair with that key: it
\* yields only keys whose latest indexed operation is a put.
C2_TombstonePrecedence ==
    hr.st = "open" =>
        /\ (res.op = "HashReader.get" /\ DeletedAfterPut(hr.hash.src, res.key))
           => (res.exc = NoExc /\ ~res.some)
        /\ (res.op = "HashReader.__contains__"
            /\ DeletedAfterPut(hr.hash.src, res.key))
           => (res.exc = NoExc /\ res.n = 0)
        /\ \A i \in 1..Len(it.out) :
              /\ ~DeletedAfterPut(hr.hash.src, it.out[i][1])
              /\ LatestIsPut(hr.hash.src, it.out[i][1])

NulFree(bytes) == \A i \in 1..Len(bytes) : bytes[i] # 0

\* C3: on an open HashWriter, get(key) returns the state as of the most
\* recent flush(): the value of the latest put of key before that flush, or
\* None; also when get was called before an earlier flush.  Stated for the
\* values that hold no NUL byte (C1 is about the bytes), so that what is
\* checked is which flush the lookup sees.
C3_GetSeesLastFlush ==
    (/\ res.op = "HashWriter.get"
     /\ hw.st = "open"
     /\ HashIsCurrent(hashfile, logfile))
    => /\ res.exc = NoExc
       /\ res.some = LatestIsPut(logfile.recs, res.key)
       /\ (res.some /\ NulFree(LatestValue(logfile.recs, res.key)))
          => res.val = LatestValue(logfile.recs, res.key)

\* C8: after close() or destroy() on a HashWriter, each of put, delete, flush,
\* get and iteritems fails with the closed-writer error and with no other.
C8_ClosedHashWriterFails ==
    (/\ hw.st = "closed"
     /\ res.op \in {"HashWriter.put", "HashWriter.delete", "HashWriter.flush",
                    "HashWriter.get", "HashWriter.iteritems"})
    => res.exc = WriterClosed

IsPrefix(a, b) == Len(a) <= Len(b) /\ SubSeq(b, 1, Len(a)) = a

\* the log file is as it was when the file at the hash path was built from it
LogUnchangedSinceBuild ==
    /\ hashfile.state = "ok"
    /\ logfile.exists
    /\ hashfile.logid = logfile.id
    /\ hashfile.src = logfile.recs

\* C5: idempotent rebuild.  A call of writehash while the log file has not
\* changed since the existing hash file was built is a no-op: the hash file
\* is not written again and its content stays as it was.
C5_IdempotentRebuild ==
    [][(res'.op = "writehash" /\ LogUnchangedSinceBuild)
       => (hashfile' = hashfile /\ ~res'.rebuilt)]_vars

\* the second call has been made: a build, and then a call that wrote nothing
C5_Witness ==
    /\ res.op = "writehash"
    /\ ~res.rebuilt
    /\ LogUnchangedSinceBuild
    /\ Len(logfile.recs) > 0

\* the hash file at the hash path was built from the log file at the log
\* path, which may have grown since
PairingMatches ==
    /\ hashfile.state = "ok"
    /\ logfile.exists
    /\ hashfile.logid = logfile.id
    /\ IsPrefix(hashfile.src, logfile.recs)

\* C6: opening a HashReader validates the pairing.  When the log identity in
\* the hash file does not match the log file, or the hash file is corrupt or
\* missing, the constructor raises the error made from the engine's status
\* code and no reader is produced; when the pairing matches it succeeds.
C6_OpenValidatesPairing ==
    res.op = "HashReader.__init__" =>
        IF PairingMatches
        THEN res.exc = NoExc /\ hr.st = "open" /\ hr.hash = hashfile
        ELSE res.exc = EngineError /\ hr.st # "open"

\* an open was refused for a complete hash file built from another log
C6_Witness ==
    /\ res.op = "HashReader.__init__"
    /\ res.exc = EngineError
    /\ hashfile.state = "ok"
    /\ logfile.exists
    /\ hashfile.logid # logfile.id

LogWriterCalls == {"LogWriter.put", "LogWriter.delete", "LogWriter.flush"}

\* C7: after close() on a LogWriter, every put, delete and flush fails with
\* the closed-writer error, makes no call into the engine and appends nothing
\* to the log.
C7_ClosedLogWriterFails ==
    [][(lw.st = "closed" /\ res'.op \in LogWriterCalls)
       => (/\ res'.exc = WriterClosed
           /\ ~res'.engine
           /\ logfile' = logfile
           /\ lw' = lw)]_vars

\* a put was refused by a writer that had flushed records before its close
C7_Witness ==
    /\ lw.st = "closed"
    /\ res.op = "LogWriter.put"
    /\ res.exc = WriterClosed
    /\ Len(logfile.recs) > 0

\* C9: after HashReader.close(), each of get, contains, len and the advance
\* of a traversal begun before the close fails with the closed-reader error
\* and makes no call into the engine with the released reader or iterator.
C9_ClosedReaderFails ==
    (/\ hr.st = "closed"
     /\ \/ res.op \in {"HashReader.get", "HashReader.__contains__",
                       "HashReader.__len__"}
        \/ res.op = "next" /\ it.pos > 0)
    => (res.exc = ReaderClosed /\ ~res.engine /\ ~res.misuse)

\* a hash file with its table whole
Complete(h) ==
    /\ h.state = "ok"
    /\ h.slots = BuildSlots(h.src)
    /\ h.numEntries = LiveCount(h.src)

\* C4: atomic publish.  While writehash rebuilds the hash file in another
\* process, the file at the hash path is the previous file until the rename
\* and the new, complete file after it, and never a partially written one;
\* a HashReader opened at any point of the rebuild holds a complete file;
\* a rebuild that fails leaves the previous file at the hash path.
C4_AtomicPublish ==
    /\ hashfile.state # "partial"
    /\ hr.st = "open" => Complete(hr.hash)
    /\ (res.op = "HashReader.__init__" /\ res.exc = NoExc)
       => hr.hash = hashfile
    /\ build.pc \in {"writing", "written"} => hashfile = build.before
    /\ (build.pc = "idle" /\ build.last = "failed")
       => hashfile = build.before
    /\ (build.pc = "idle" /\ build.last = "published")
       => (Complete(hashfile) /\ PairingMatches)

\* a reader was opened between the writing of the new table and its rename,
\* and holds the previous file
C4_Witness ==
    /\ res.op = "HashReader.__init__"
    /\ hr.st = "open"
    /\ build.pc = "written"
    /\ hr.hash = build.before
    /\ hr.hash.src # build.tmp.src

CloseCalls == {"LogWriter.close", "LogReader.close", "LogIter.close",
               "HashReader.close", "HashWriter.close"}

\* the handle that the call closes is closed already
AlreadyClosed(op) ==
    CASE op = "LogWriter.close" -> lw.st = "closed"
      [] op = "LogReader.close" -> lr.st = "closed"
      [] op = "LogIter.close" -> li.st = "closed"
      [] op = "HashReader.close" -> hr.st = "closed"
      [] op = "HashWriter.close" -> hw.st = "closed"
      [] OTHER -> FALSE

\* C10: close() is idempotent on every handle type.  The engine's close
\* function is called at most once on each native handle, and a close() of a
\* handle that is closed already raises nothing, makes no call into the
\* engine, flushes nothing, rebuilds no hash file and changes no state.
C10_CloseIdempotent ==
    /\ [](/\ lw.closes <= 1
          /\ lr.closes <= 1
          /\ li.closes <= 1
          /\ hr.closes <= 1
          /\ hr.iterCloses <= 1
          /\ it.closes <= 1)
    /\ [][(res'.op \in CloseCalls /\ AlreadyClosed(res'.op))
          => (/\ res'.exc = NoExc
              /\ ~res'.engine
              /\ ~res'.rebuilt
              /\ ~res'.misuse
              /\ UNCHANGED <<logfile, hashfile, lw, hr, it, hw, lr, li,
                             build, ck, tr>>)]_vars

\* a HashWriter with flushed records was closed twice
C10_Witness ==
    /\ res.op = "HashWriter.close"
    /\ ~res.engine
    /\ hw.st = "closed"
    /\ lw.closes = 1
    /\ Len(logfile.recs) > 0

\* C11: a LogWriter constructed in APPEND mode for a log file that does not
\* exist fails at construction: the constructor raises, no file is created
\* and no writer is returned on which put, delete or flush can be called.
C11_AppendMissingFails ==
    (res.op = "LogWriter.__init__" /\ ~logfile.exists)
    => (res.exc # NoExc /\ lw.st \notin {"open", "null"})

\* C12: when the advance of a log iterator meets a malformed record,
\* LogIter.next fails with a corruption error: corruption is not reported
\* as the end of the iteration (StopIteration), and every later next on the
\* cursor fails as well instead of yielding a record.
C12_CorruptionIsAnError ==
    (/\ res.op = "LogIter.next"
     /\ li.st = "open"
     /\ lr.st = "open"
     /\ OnMalformed(lr.recs, li.pos))
    => (res.exc # NoExc /\ res.exc # StopIteration)

\* the distinct keys whose latest operation in recs is a put
LiveKeys(recs) ==
    {k \in {recs[i].key : i \in 1..Len(recs)} : LatestIsPut(recs, k)}

\* C13: for a HashReader opened on a built index, len(reader) is the number
\* of distinct keys whose latest indexed operation is a put, which is the
\* number of pairs that one full iteration of the reader yields; calls of
\* get and contains do not change it.
C13_LenCountsLiveKeys ==
    /\ [](hr.st = "open" =>
            /\ hr.hash.numEntries = Cardinality(LiveKeys(hr.hash.src))
            /\ res.op = "HashReader.__len__"
               => (res.exc = NoExc /\ res.n = Cardinality(LiveKeys(hr.hash.src)))
            /\ (it.st = "done" /\ it.closes = 1)
               => Len(it.out) = Cardinality(LiveKeys(hr.hash.src)))
    /\ [][res'.op \in {"HashReader.get", "HashReader.__contains__"}
          => hr' = hr]_vars

\* len was called after a full iteration, on an index of two records of
\* which one is superseded or deleted
C13_Witness ==
    /\ res.op = "HashReader.__len__"
    /\ hr.st = "open"
    /\ it.st = "done"
    /\ it.closes = 1
    /\ Len(hr.hash.src) = 2
    /\ res.n = 1
    /\ Len(it.out) = 1

\* C14: chunked-boundary correctness.  When the engine delivers a field of
\* n bytes as any sequence of non-empty chunks, the chunk-reading helpers
\* ask for at most the remaining length each time and return the
\* concatenation of the chunks: the whole field of n bytes.
C14_ChunksConcatenate ==
    /\ (ck.pc \in {"loop", "returned"} /\ ck.reads > 0)
       => ck.asked <= Len(ck.data) - (ck.consumed - ck.blen)
    /\ (ck.pc = "returned" /\ ~ck.empty) => ck.acc = ck.data

\* C19: the chunk-reading helpers terminate: when a chunk read returns no
\* byte they take it as 'no more data' and return the bytes accumulated so
\* far instead of going round the loop again.
C19_EmptyChunkEndsRead ==
    [][(ck.pc = "loop" /\ ck'.reads = ck.reads + 1 /\ ck'.blen = 0)
       => (ck'.pc = "returned" /\ ck'.acc = ck.acc)]_vars

ArgumentErrors == {KeyNotString, ValueNotString}

\* the call raised in the binding and left the log and the writer alone
RefusedAtBoundary ==
    /\ res'.exc \in ArgumentErrors
    /\ ~res'.engine
    /\ logfile' = logfile
    /\ lw' = lw

\* C15: on an open LogWriter, put with a key or a value that is not a
\* string, and delete with a key that is not a string, fail with an
\* argument error raised in the binding before any engine call, and leave
\* the log and the writer's open state unchanged.
C15_NonStringRefused ==
    [][/\ \A key \in PyArgs, value \in PyArgs :
            (/\ lw.st = "open"
             /\ key.pytype # "str" \/ value.pytype # "str"
             /\ LogWriter_put_any(key, value))
            => RefusedAtBoundary
       /\ \A key \in PyArgs :
            (/\ lw.st = "open"
             /\ key.pytype # "str"
             /\ LogWriter_delete_any(key))
            => RefusedAtBoundary]_vars

\* a put with a value of another type was refused by an open writer that
\* holds a buffered record
C15_Witness ==
    /\ res.op = "LogWriter.put"
    /\ res.exc = ValueNotString
    /\ lw.st = "open"
    /\ Len(lw.pending) > 0

\* C16: on an open HashWriter whose hash file has been built by a flush,
\* iteritems() returns a traversal, which yields the pairs that are live as
\* of the flushed index.
C16_IteritemsTraverses ==
    (/\ res.op = "HashWriter.iteritems"
     /\ hw.st = "open"
     /\ PairingMatches)
    => (res.exc = NoExc /\ it.st = "created")

\* C17: HashWriter.destroy() closes the writer and flushes nothing: records
\* put or deleted since the most recent flush() are not written to the log
\* file, so the log file and the hash file after destroy() are what they
\* were right after that flush.
C17_DestroyFlushesNothing ==
    [][res'.op = "HashWriter.destroy"
       => (logfile' = logfile /\ hashfile' = hashfile)]_vars

WellFormed(recs) == \A i \in 1..Len(recs) : recs[i].type # MALFORMED

\* C18: a LogIter is a single-pass sequence.  Successive next() calls yield
\* the flushed records of the log in append order as (key, value, type),
\* delete records included; at the end of the log next() raises
\* StopIteration, and so does every later next() on the iterator; a fresh
\* iterator from iter(logreader) starts at the first record.
C18_LogIterSinglePass ==
    [][/\ (/\ res'.op = "LogIter.next"
           /\ li.st = "open"
           /\ lr.st = "open"
           /\ WellFormed(lr.recs))
          => IF li.pos < Len(lr.recs)
             THEN /\ res'.exc = NoExc
                  /\ ~res'.misuse
                  /\ li'.pos = li.pos + 1
                  /\ res'.key = lr.recs[li.pos + 1].key
                  /\ res'.val = lr.recs[li.pos + 1].value
                  /\ res'.n = IF lr.recs[li.pos + 1].type = PUT THEN 0 ELSE 1
             ELSE /\ res'.exc = StopIteration
                  /\ li' = li
       /\ (res'.op = "LogReader.__iter__" /\ res'.exc = NoExc)
          => (li'.st = "open" /\ li'.pos = 0)]_vars

RECURSIVE WalkFrom(_)
\* the pairs that a traversal of the open reader yields from slot p on when
\* nothing else runs
WalkFrom(p) ==
    LET q == NextSlot(hr.hash.slots, p)
    IN  IF q = 0 THEN <<>>
        ELSE <<<<key_chunk(logfile, logfile.recs[hr.hash.slots[q]]),
                 value_chunk(logfile, logfile.recs[hr.hash.slots[q]])>>>>
             \o WalkFrom(q)

\* C20: traversals of a HashReader are independent of its lookups and of
\* each other.  In every interleaving of get and contains calls and of
\* advances of several traversals on one open reader, each traversal yields
\* the sequence of pairs it would yield alone, and each get returns what it
\* would return alone.
C20_TraversalsIndependent ==
    hr.st = "open" =>
        /\ \A t \in Traversals :
              /\ IsPrefix(tr.out[t], WalkFrom(0))
              /\ tr.st[t] = "done" => tr.out[t] = WalkFrom(0)
        /\ res.op = "HashReader.get"
           => res = HashReader_get_outcome("HashReader.get", hr, res.key)

\* a get found its key while one traversal had yielded both live pairs and
\* the other stood between the first and the second
C20_Witness ==
    /\ hr.st = "open"
    /\ res.op = "HashReader.get"
    /\ res.some
    /\ tr.st[1] = "done"
    /\ Len(tr.out[1]) = 2
    /\ tr.st[2] = "running"
    /\ Len(tr.out[2]) = 1

====
